---- MODULE Spec2Model ----
(***************************************************************************)
(* Model of the ATC scoring / report pipeline of ai-animal:                *)
(*   gemini_analyzer.py  _parse_response, _validate_result,                *)
(*                       _calculate_composite_scores                       *)
(*   atc_scoring.py      get_score_description, calculate_overall_grade,   *)
(*                       format_report, _format_scores, export_for_bpa     *)
(*                                                                         *)
(* JSON / Python values are tagged records:                                *)
(*   None        [t |-> "null"]                                            *)
(*   int n       [t |-> "int", n |-> n]                                    *)
(*   str s       [t |-> "str", s |-> s]                                    *)
(*   bool b      [t |-> "bool", b |-> b]                                   *)
(*   list        [t |-> "list", items |-> <<...>>]                         *)
(*   dict d      [t |-> "dict", d |-> d]   d a function on its keys        *)
(* A score map (a dict whose order is the JSON order) is a sequence of     *)
(* [trait_id, data] items with distinct trait ids.                         *)
(* Composite scores are 2-decimal numbers and are kept in hundredths       *)
(* (6.25 is 625); a mean sum/len is kept as the exact fraction.            *)
(***************************************************************************)
EXTENDS Integers, Sequences, FiniteSets, TLC

VARIABLES pc, now, response_text, result, report, bpa_data, args, ret,
          analysis_results, calls

vars == <<pc, now, response_text, result, report, bpa_data, args, ret,
          analysis_results, calls>>

----------------------------------------------------------------------------
(* Python values *)

None == [t |-> "null"]
PyInt(n) == [t |-> "int", n |-> n]
PyStr(s) == [t |-> "str", s |-> s]
PyBool(b) == [t |-> "bool", b |-> b]
PyList(items) == [t |-> "list", items |-> items]
PyDict(d) == [t |-> "dict", d |-> d]
\* a dict whose iteration order matters: items is the sequence of its
\* [trait_id, data] pairs
PyItems(items) == [t |-> "dict", items |-> items]
\* a 2-decimal number, in hundredths
PyNum(h) == [t |-> "num", h |-> h]

IsDict(x) == x.t = "dict"

\* dict.get(key, default)
Get(d, key, default) == IF key \in DOMAIN d THEN d[key] ELSE default

\* truthiness of a value used as a condition (if score / if udder_avg)
Truthy(x) ==
  CASE x.t = "null" -> FALSE
    [] x.t = "int" -> x.n # 0
    [] x.t = "str" -> x.s # ""
    [] x.t = "bool" -> x.b
    [] x.t = "num" -> x.h # 0
    [] OTHER -> TRUE

\* a returned value, or the exception a call raised
Return(v) == [exc |-> "none", val |-> v]
Raise(e) == [exc |-> e]
Raised(r) == r.exc # "none"

----------------------------------------------------------------------------
(* config.py *)

SCORE_MIN == 1
SCORE_MAX == 9

StructuralTraits ==
  << [id |-> "stature", name |-> "Stature", description |-> "Height at withers"],
     [id |-> "chest_width", name |-> "Chest Width", description |-> "Width between front legs"],
     [id |-> "body_depth", name |-> "Body Depth", description |-> "Depth of barrel/body"],
     [id |-> "rump_angle", name |-> "Rump Angle", description |-> "Slope from hooks to pins"],
     [id |-> "rump_width", name |-> "Rump Width", description |-> "Width between pin bones"],
     [id |-> "rear_legs", name |-> "Rear Legs", description |-> "Angle and set of rear legs"],
     [id |-> "foot_angle", name |-> "Foot Angle", description |-> "Angle of front feet"],
     [id |-> "body_condition", name |-> "Body Condition", description |-> "Overall body condition score"] >>

UdderTraits ==
  << [id |-> "fore_udder", name |-> "Fore Udder Attachment", description |-> "Strength of fore attachment"],
     [id |-> "rear_udder_height", name |-> "Rear Udder Height", description |-> "Height of rear attachment"],
     [id |-> "udder_depth", name |-> "Udder Depth", description |-> "Udder floor relative to hocks"],
     [id |-> "teat_placement", name |-> "Teat Placement", description |-> "Position of teats"],
     [id |-> "teat_length", name |-> "Teat Length", description |-> "Length of teats"] >>

ATC_TRAITS == [structural |-> StructuralTraits, udder |-> UdderTraits]

----------------------------------------------------------------------------
(* atc_scoring.py : ATCScorer *)

\* validate_score: None is valid, otherwise score_min <= score <= score_max
validate_score(score) ==
  IF score.t = "null" THEN TRUE
  ELSE score.t = "int" /\ SCORE_MIN <= score.n /\ score.n <= SCORE_MAX

\* the anchor texts of get_score_description, keyed by trait id then 1, 5, 9
descriptions ==
  [stature |-> [a1 |-> "Very short/small", a5 |-> "Average height", a9 |-> "Very tall/large"],
   chest_width |-> [a1 |-> "Very narrow chest", a5 |-> "Average chest width", a9 |-> "Very wide chest"],
   body_depth |-> [a1 |-> "Very shallow body", a5 |-> "Average body depth", a9 |-> "Very deep body"],
   rump_angle |-> [a1 |-> "Pins very high (level)", a5 |-> "Moderate slope", a9 |-> "Pins very low (steep)"],
   rump_width |-> [a1 |-> "Very narrow rump", a5 |-> "Average rump width", a9 |-> "Very wide rump"],
   rear_legs |-> [a1 |-> "Very straight (post-legged)", a5 |-> "Intermediate set", a9 |-> "Very sickled"],
   foot_angle |-> [a1 |-> "Very low angle (flat)", a5 |-> "Intermediate angle", a9 |-> "Very steep angle"],
   body_condition |-> [a1 |-> "Very thin/emaciated", a5 |-> "Average condition", a9 |-> "Very fat/over-conditioned"],
   fore_udder |-> [a1 |-> "Weak/loose attachment", a5 |-> "Moderate attachment", a9 |-> "Very strong attachment"],
   rear_udder_height |-> [a1 |-> "Very low attachment", a5 |-> "Intermediate height", a9 |-> "Very high attachment"],
   udder_depth |-> [a1 |-> "Well below hocks", a5 |-> "At hock level", a9 |-> "Well above hocks"],
   teat_placement |-> [a1 |-> "Very wide (outside)", a5 |-> "Central placement", a9 |-> "Very close (inside)"],
   teat_length |-> [a1 |-> "Very short teats", a5 |-> "Medium length", a9 |-> "Very long teats"]]

\* str(score) inside an f-string
FormatValue(score) ==
  CASE score.t = "int" -> ToString(score.n)
    [] score.t = "str" -> score.s
    [] OTHER -> "None"

\* get_score_description with the range test moved off the midpoint
get_score_description_off_midpoint(trait_id, score) ==
  IF trait_id \notin DOMAIN descriptions
  THEN Return("Score: " \o FormatValue(score))
  ELSE LET trait_desc == descriptions[trait_id] IN
       IF score.t # "int" THEN Raise("TypeError")
       ELSE IF score.n = 1 THEN Return(trait_desc.a1)
       ELSE IF score.n = 5 THEN Return(trait_desc.a5)
       ELSE IF score.n = 9 THEN Return(trait_desc.a9)
       ELSE IF score.n < 7
       THEN Return("Below average (" \o trait_desc.a1 \o " to " \o trait_desc.a5 \o ")")
       ELSE Return("Above average (" \o trait_desc.a5 \o " to " \o trait_desc.a9 \o ")")

\* get_score_description(trait_id, score); score < 5 raises TypeError when
\* score is not a number
get_score_description(trait_id, score) ==
  IF trait_id \notin DOMAIN descriptions
  THEN Return("Score: " \o FormatValue(score))
  ELSE LET trait_desc == descriptions[trait_id] IN
       IF score.t # "int" THEN Raise("TypeError")
       ELSE IF score.n = 1 THEN Return(trait_desc.a1)
       ELSE IF score.n = 5 THEN Return(trait_desc.a5)
       ELSE IF score.n = 9 THEN Return(trait_desc.a9)
       ELSE IF score.n < 5
       THEN Return("Below average (" \o trait_desc.a1 \o " to " \o trait_desc.a5 \o ")")
       ELSE Return("Above average (" \o trait_desc.a5 \o " to " \o trait_desc.a9 \o ")")

\* calculate_overall_grade with exclusive thresholds
calculate_overall_grade_exclusive(composite_score) ==
  IF composite_score > 800 THEN "Excellent"
  ELSE IF composite_score > 700 THEN "Very Good"
  ELSE IF composite_score > 600 THEN "Good Plus"
  ELSE IF composite_score > 500 THEN "Good"
  ELSE IF composite_score > 400 THEN "Average"
  ELSE IF composite_score > 300 THEN "Fair"
  ELSE "Poor"

\* calculate_overall_grade(composite_score), composite_score in hundredths
calculate_overall_grade(composite_score) ==
  IF composite_score >= 800 THEN "Excellent"
  ELSE IF composite_score >= 700 THEN "Very Good"
  ELSE IF composite_score >= 600 THEN "Good Plus"
  ELSE IF composite_score >= 500 THEN "Good"
  ELSE IF composite_score >= 400 THEN "Average"
  ELSE IF composite_score >= 300 THEN "Fair"
  ELSE "Poor"

----------------------------------------------------------------------------
(* gemini_analyzer.py : GeminiAnalyzer *)

\* round(num/den, 2) in hundredths, for num >= 0 and den > 0.  Python rounds
\* the exact value of the float; the only exact ties of a mean of at most 8
\* integers are the eighths (x.125, x.375, ...), which are exact in binary
\* and go to the even hundredth.
Round2(num, den) ==
  LET q == (100 * num) \div den
      r == (100 * num) % den
  IN IF 2 * r > den THEN q + 1
     ELSE IF 2 * r < den THEN q
     ELSE IF q % 2 = 0 THEN q ELSE q + 1

RECURSIVE SumInts(_)
SumInts(s) == IF s = <<>> THEN 0 ELSE Head(s).n + SumInts(Tail(s))

\* CollectScores taking an entry that is not a dict as the score itself, the
\* way _format_scores does
RECURSIVE CollectScores_bare_scores(_)
CollectScores_bare_scores(items) ==
  IF items = <<>> THEN <<>>
  ELSE LET data == Head(items).data
           score == IF IsDict(data) THEN Get(data.d, "score", None) ELSE data
       IN IF score # None
          THEN <<score>> \o CollectScores_bare_scores(Tail(items))
          ELSE CollectScores_bare_scores(Tail(items))

\* the loop of _calculate_composite_scores over one score map: the scores of
\* the entries that are dicts and whose "score" is not None
RECURSIVE CollectScores(_)
CollectScores(items) ==
  IF items = <<>> THEN <<>>
  ELSE LET data == Head(items).data IN
       IF IsDict(data) /\ Get(data.d, "score", None) # None
       THEN <<data.d["score"]>> \o CollectScores(Tail(items))
       ELSE CollectScores(Tail(items))

\* sum(scores) / len(scores) as an exact fraction; NoAvg stands for None
Mean(scores) == [num |-> SumInts(scores), den |-> Len(scores)]
NoAvg == [num |-> 0, den |-> 0]

\* StructuralAvg dividing by the size of the catalog instead of the number
\* of collected scores
StructuralAvg_over_catalog(structural_scores) ==
  IF structural_scores # <<>>
  THEN [num |-> SumInts(structural_scores), den |-> Len(StructuralTraits)]
  ELSE [num |-> 5, den |-> 1]

\* structural_avg = sum(...) / len(...) if structural_scores else 5
StructuralAvg(structural_scores) ==
  IF structural_scores # <<>> THEN Mean(structural_scores) ELSE [num |-> 5, den |-> 1]

\* udder_avg = sum(...) / len(...) if udder_scores else None
UdderAvg(udder_scores) ==
  IF udder_scores # <<>> THEN Mean(udder_scores) ELSE NoAvg

\* "udder_composite": round(udder_avg, 2) if udder_avg else None
UdderComposite(udder_avg) ==
  IF udder_avg # NoAvg /\ udder_avg.num # 0
  THEN PyNum(Round2(udder_avg.num, udder_avg.den))
  ELSE None

\* FinalComposite blending the two rounded composites
FinalComposite_of_rounded(structural_avg, udder_avg) ==
  IF udder_avg # NoAvg
  THEN PyNum(Round2(6 * Round2(structural_avg.num, structural_avg.den)
                      + 4 * Round2(udder_avg.num, udder_avg.den), 1000))
  ELSE PyNum(Round2(structural_avg.num, structural_avg.den))

\* "final_composite": round(final, 2), final the 0.6 / 0.4 blend of the two
\* averages if udder_avg is not None, else structural_avg
FinalComposite(structural_avg, udder_avg) ==
  IF udder_avg # NoAvg
  THEN PyNum(Round2(3 * structural_avg.num * udder_avg.den
                      + 2 * udder_avg.num * structural_avg.den,
                    5 * structural_avg.den * udder_avg.den))
  ELSE PyNum(Round2(structural_avg.num, structural_avg.den))

\* _calculate_composite_scores(result): .items() of a non-dict raises
\* AttributeError, sum() over a non-number raises TypeError
_calculate_composite_scores(res) ==
  LET structural == Get(res, "structural_scores", PyItems(<<>>))
      udder == Get(res, "udder_scores", PyItems(<<>>))
  IN
  IF ~IsDict(structural) THEN Raise("AttributeError")
  ELSE LET structural_scores == CollectScores(structural.items) IN
  IF \E i \in 1..Len(structural_scores) : structural_scores[i].t # "int"
  THEN Raise("TypeError")
  ELSE IF ~IsDict(udder) THEN Raise("AttributeError")
  ELSE LET udder_scores == CollectScores(udder.items) IN
  IF \E i \in 1..Len(udder_scores) : udder_scores[i].t # "int"
  THEN Raise("TypeError")
  ELSE
  LET structural_avg == StructuralAvg(structural_scores)
      udder_avg == UdderAvg(udder_scores)
  IN Return(PyDict(
       [structural_composite |-> PyNum(Round2(structural_avg.num, structural_avg.den)),
        udder_composite |-> UdderComposite(udder_avg),
        final_composite |-> FinalComposite(structural_avg, udder_avg)]))

\* defaults giving image_quality the same literal as the other strings
defaults_quality_unknown ==
  [animal_detected |-> PyBool(FALSE),
   animal_type |-> PyStr("unknown"),
   breed_guess |-> PyStr("unknown"),
   sex |-> PyStr("unknown"),
   image_quality |-> PyStr("unknown"),
   image_angle |-> PyStr("unknown"),
   body_parts_visible |-> PyItems(<<>>),
   structural_scores |-> PyItems(<<>>),
   udder_scores |-> PyItems(<<>>),
   overall_score |-> PyInt(5),
   overall_assessment |-> PyStr(""),
   recommendations |-> PyList(<<>>)]

\* the defaults of _validate_result
defaults ==
  [animal_detected |-> PyBool(FALSE),
   animal_type |-> PyStr("unknown"),
   breed_guess |-> PyStr("unknown"),
   sex |-> PyStr("unknown"),
   image_quality |-> PyStr("fair"),
   image_angle |-> PyStr("unknown"),
   body_parts_visible |-> PyItems(<<>>),
   structural_scores |-> PyItems(<<>>),
   udder_scores |-> PyItems(<<>>),
   overall_score |-> PyInt(5),
   overall_assessment |-> PyStr(""),
   recommendations |-> PyList(<<>>)]

\* _validate_result(result), result any parsed JSON value: key not in
\* result / result[key] = default raise TypeError unless result is a dict
_validate_result(res) ==
  IF ~IsDict(res) THEN Raise("TypeError")
  ELSE
  LET filled == [key \in DOMAIN res.d \cup DOMAIN defaults |->
                   IF key \in DOMAIN res.d THEN res.d[key] ELSE defaults[key]]
      composite_scores == _calculate_composite_scores(filled)
  IN IF Raised(composite_scores) THEN composite_scores
     ELSE Return(PyDict(
            [key \in DOMAIN filled \cup {"composite_scores"} |->
               IF key = "composite_scores" THEN composite_scores.val ELSE filled[key]]))

\* The cleanup of _parse_response.  A response text is [head, body, tail]:
\* head and tail are the token sequences around the body (a code fence is
\* the token "FENCE", three backquotes, followed by its language tag).
StripFences(text) ==
  LET h1 == IF Len(text.head) >= 2 /\ SubSeq(text.head, 1, 2) = <<"FENCE", "json">>
            THEN SubSeq(text.head, 3, Len(text.head)) ELSE text.head
      h2 == IF h1 # <<>> /\ Head(h1) = "FENCE" THEN Tail(h1) ELSE h1
      t1 == IF text.tail # <<>> /\ text.tail[Len(text.tail)] = "FENCE"
            THEN SubSeq(text.tail, 1, Len(text.tail) - 1) ELSE text.tail
  IN [head |-> h2, body |-> text.body, tail |-> t1]

\* json.loads(text): the body is [json, value]; anything left around it, or
\* a body that is not JSON, raises JSONDecodeError
json_loads(text) ==
  IF text.head = <<>> /\ text.tail = <<>> /\ text.body.json
  THEN Return(text.body.value)
  ELSE Raise("JSONDecodeError")

\* _parse_response(response_text): only JSONDecodeError is caught; the
\* message is kept up to the decoder's own detail text
_parse_response(text) ==
  LET loaded == json_loads(StripFences(text)) IN
  IF Raised(loaded)
  THEN Return(PyDict([error |-> PyBool(TRUE),
                      message |-> PyStr("Failed to parse AI response"),
                      raw_response |-> text]))
  ELSE _validate_result(loaded.val)

----------------------------------------------------------------------------
(* atc_scoring.py : ATCScorer, report construction *)

\* trait_defs.get(trait_id, {"name": trait_id, "description": ""}) over the
\* traits of one category
TraitDef(category, trait_id) ==
  LET defs == ATC_TRAITS[category] IN
  IF \E i \in 1..Len(defs) : defs[i].id = trait_id
  THEN defs[CHOOSE i \in 1..Len(defs) : defs[i].id = trait_id]
  ELSE [name |-> trait_id, description |-> ""]

\* the body of the loop of _format_scores for one (trait_id, data) item
FormatScore(category, trait_id, data) ==
  LET score == IF IsDict(data) THEN Get(data.d, "score", None) ELSE data
      notes == IF IsDict(data) THEN Get(data.d, "notes", PyStr("")) ELSE PyStr("")
      trait_def == TraitDef(category, trait_id)
      score_description == IF Truthy(score) THEN get_score_description(trait_id, score)
                           ELSE Return("Not assessed")
  IN IF Raised(score_description) THEN score_description
     ELSE Return([trait_id |-> trait_id,
                  trait_name |-> trait_def.name,
                  description |-> trait_def.description,
                  score |-> score,
                  score_description |-> score_description.val,
                  notes |-> notes])

RECURSIVE FormatItems(_, _)
FormatItems(items, category) ==
  IF items = <<>> THEN Return(<<>>)
  ELSE LET first == FormatScore(category, Head(items).trait_id, Head(items).data) IN
       IF Raised(first) THEN first
       ELSE LET rest == FormatItems(Tail(items), category) IN
            IF Raised(rest) THEN rest
            ELSE Return(<<first.val>> \o rest.val)

\* _format_scores(scores, category)
_format_scores(scores, category) ==
  IF ~IsDict(scores) THEN Raise("AttributeError")
  ELSE FormatItems(scores.items, category)

\* ReportGrade grading the oracle's own overall_score
ReportGrade_of_overall_score(analysis_result) ==
  calculate_overall_grade(Get(analysis_result, "overall_score", PyInt(5)).n * 100)

\* "overall_grade": calculate_overall_grade(
\*     analysis_result.get("composite_scores", {}).get("final_composite", 5))
ReportGrade(analysis_result) ==
  calculate_overall_grade(
    Get(Get(analysis_result, "composite_scores", PyDict(<<>>)).d,
        "final_composite", PyNum(500)).h)

\* format_report(analysis_result) at clock reading clock (the default 5 of
\* final_composite is 500 hundredths)
format_report(analysis_result, clock) ==
  LET structural == _format_scores(
                      Get(analysis_result, "structural_scores", PyItems(<<>>)), "structural")
      udder == _format_scores(
                 Get(analysis_result, "udder_scores", PyItems(<<>>)), "udder")
      composites == Get(analysis_result, "composite_scores", PyDict(<<>>))
  IN IF Raised(structural) THEN structural
     ELSE IF Raised(udder) THEN udder
     ELSE Return(
       [report_id |-> clock,
        generated_at |-> clock,
        animal_info |->
          [type |-> Get(analysis_result, "animal_type", PyStr("unknown")),
           breed |-> Get(analysis_result, "breed_guess", PyStr("unknown")),
           sex |-> Get(analysis_result, "sex", PyStr("unknown"))],
        image_assessment |->
          [quality |-> Get(analysis_result, "image_quality", PyStr("fair")),
           angle |-> Get(analysis_result, "image_angle", PyStr("unknown")),
           body_parts_visible |-> Get(analysis_result, "body_parts_visible", PyItems(<<>>))],
        scores |-> [structural |-> structural.val, udder |-> udder.val],
        composites |-> composites,
        overall_grade |-> ReportGrade(analysis_result),
        assessment |-> Get(analysis_result, "overall_assessment", PyStr("")),
        recommendations |-> Get(analysis_result, "recommendations", PyList(<<>>))])

\* FlattenScores skipping the items without a score
FlattenScores_skip_unscored(formatted) ==
  [id \in {formatted[i].trait_id :
              i \in {j \in 1..Len(formatted) : Truthy(formatted[j].score)}} |->
     LET last == CHOOSE i \in 1..Len(formatted) :
                   /\ formatted[i].trait_id = id
                   /\ \A j \in 1..Len(formatted) : formatted[j].trait_id = id => j <= i
     IN formatted[last].score]

\* the flattening loops of export_for_bpa: trait_id -> score, a later item
\* overwriting an earlier one with the same trait_id
FlattenScores(formatted) ==
  [id \in {formatted[i].trait_id : i \in 1..Len(formatted)} |->
     LET last == CHOOSE i \in 1..Len(formatted) :
                   /\ formatted[i].trait_id = id
                   /\ \A j \in 1..Len(formatted) : formatted[j].trait_id = id => j <= i
     IN formatted[last].score]

\* export_for_bpa(report)
export_for_bpa(rep) ==
  [report_id |-> rep.report_id,
   timestamp |-> rep.generated_at,
   animal_type |-> rep.animal_info.type,
   breed |-> rep.animal_info.breed,
   sex |-> rep.animal_info.sex,
   structural_scores |-> FlattenScores(rep.scores.structural),
   udder_scores |-> FlattenScores(rep.scores.udder),
   structural_composite |-> Get(rep.composites.d, "structural_composite", None),
   udder_composite |-> Get(rep.composites.d, "udder_composite", None),
   final_composite |-> Get(rep.composites.d, "final_composite", None),
   overall_grade |-> rep.overall_grade,
   assessment |-> rep.assessment,
   recommendations |-> rep.recommendations]

----------------------------------------------------------------------------
(* The oracle's responses: the texts generate_content may return for the   *)
(* prompt of _create_analysis_prompt.                                      *)

MaxTime == 1

\* per-trait entries
Scored(n) == PyDict([score |-> PyInt(n), notes |-> PyStr("clear view")])
NotVisible == PyDict([score |-> None, notes |-> PyStr("not visible")])
NoScoreKey == PyDict([notes |-> PyStr("not visible")])
NoNotesKey == PyDict([score |-> PyInt(6)])
StrScore == PyDict([score |-> PyStr("7"), notes |-> PyStr("clear view")])

\* the integers an entry may carry: the anchors, one value of each range
\* between them, and the neighbours 0 and 10 of the 1-9 scale
OracleInts == {SCORE_MIN - 1, SCORE_MIN, 3, 5, 7, SCORE_MAX, SCORE_MAX + 1}

\* dict entries of every kind, and entries that are not dicts
RichEntries ==
  {Scored(n) : n \in OracleInts}
    \cup {NotVisible, NoScoreKey, NoNotesKey, StrScore, PyInt(7), PyStr("tall"), None}

\* the score maps over the trait ids ids, in that order, each id either left
\* out or given an entry of entries
RECURSIVE Maps(_, _)
Maps(ids, entries) ==
  IF ids = <<>> THEN {<<>>}
  ELSE LET rest == Maps(Tail(ids), entries) IN
       rest \cup {<<[trait_id |-> Head(ids), data |-> e]>> \o r : e \in entries, r \in rest}

\* the score maps that give every one of the first k structural traits of
\* the catalog an entry of entries
RECURSIVE FullMaps(_, _)
FullMaps(k, entries) ==
  IF k = 0 THEN {<<>>}
  ELSE {r \o <<[trait_id |-> StructuralTraits[k].id, data |-> e]>> :
          r \in FullMaps(k - 1, entries), e \in entries}

\* a response object with every field of the prompt
Payload(structural, udder) ==
  [animal_detected |-> PyBool(TRUE),
   animal_type |-> PyStr("cattle"),
   breed_guess |-> PyStr("Gir"),
   sex |-> PyStr("female"),
   image_quality |-> PyStr("good"),
   image_angle |-> PyStr("side"),
   body_parts_visible |-> PyItems(<<[trait_id |-> "udder", data |-> PyBool(TRUE)]>>),
   structural_scores |-> structural,
   udder_scores |-> udder,
   overall_score |-> PyInt(6),
   overall_assessment |-> PyStr("Balanced frame"),
   recommendations |-> PyList(<<"Suitable for breeding">>)]

\* few traits, every kind of entry
RichPayloads ==
  {Payload(PyItems(s), PyItems(u)) :
     s \in Maps(<<"stature", "custom_trait">>, RichEntries),
     u \in Maps(<<"fore_udder">>, RichEntries)}

\* several udder traits, some of them without a score
UdderPayloads ==
  {Payload(PyItems(s), PyItems(u)) :
     s \in Maps(<<"stature">>, {Scored(5), Scored(8)}),
     u \in Maps(<<"fore_udder", "rear_udder_height", "teat_length">>,
                {Scored(2), Scored(9), NotVisible, NoScoreKey, PyInt(7)})}

\* up to all 8 structural traits scored
WidePayloads ==
  {Payload(PyItems(s), PyItems(u)) :
     s \in UNION {FullMaps(k, {Scored(5), Scored(7)}) : k \in 0..Len(StructuralTraits)},
     u \in Maps(<<"fore_udder">>, {Scored(5)})}

\* every trait of the catalog scored 9
AllNine ==
  Payload(PyItems([i \in 1..Len(StructuralTraits) |->
                     [trait_id |-> StructuralTraits[i].id, data |-> Scored(SCORE_MAX)]]),
          PyItems([i \in 1..Len(UdderTraits) |->
                     [trait_id |-> UdderTraits[i].id, data |-> Scored(SCORE_MAX)]]))

\* objects that lack fields, or whose score maps are null ("provide
\* empty/null values for other fields")
OptionalKeys ==
  {"animal_type", "breed_guess", "sex", "image_quality", "image_angle",
   "structural_scores", "udder_scores"}

Without(payload, keys) == [key \in DOMAIN payload \ keys |-> payload[key]]

BasePayload ==
  Payload(PyItems(<<[trait_id |-> "stature", data |-> Scored(7)],
                    [trait_id |-> "chest_width", data |-> Scored(5)]>>),
          PyItems(<<[trait_id |-> "fore_udder", data |-> Scored(6)]>>))

\* the metadata fields given as null
NullMetadata ==
  [BasePayload EXCEPT !["animal_type"] = None, !["breed_guess"] = None, !["sex"] = None,
                      !["image_quality"] = None, !["image_angle"] = None]

PartialPayloads ==
  {Without(BasePayload, keys) : keys \in SUBSET OptionalKeys}
    \cup {Without(BasePayload, DOMAIN BasePayload)}
    \cup {Payload(None, None), Payload(PyItems(<<>>), None), NullMetadata}

Payloads ==
  RichPayloads \cup UdderPayloads \cup WidePayloads \cup {AllNine} \cup PartialPayloads

\* what the text holds between its fences: JSON of some value, or no JSON
Json(value) == [json |-> TRUE, value |-> value]
NotJson == [json |-> FALSE, value |-> None]

OtherBodies ==
  {NotJson, Json(PyList(<<>>)), Json(PyStr("no animal")), Json(PyInt(5)), Json(None)}

Heads == {<<>>, <<"FENCE", "json">>, <<"FENCE">>, <<"FENCE", "js">>}
Tails == {<<>>, <<"FENCE">>, <<"note">>}

ResponseTexts ==
  {[head |-> <<>>, body |-> Json(PyDict(p)), tail |-> <<>>] : p \in Payloads}
    \cup {[head |-> h, body |-> b, tail |-> t] :
            h \in Heads, t \in Tails, b \in OtherBodies \cup {Json(PyDict(BasePayload))}}

----------------------------------------------------------------------------
(* The pipeline of upload_file and export_result, one call per step.       *)

Init ==
  /\ pc = "respond"
  /\ now \in 0..MaxTime
  /\ response_text \in ResponseTexts
  /\ result = None
  /\ report = None
  /\ bpa_data = None
  /\ args = None
  /\ ret = None
  /\ analysis_results = <<>>
  /\ calls = <<>>

\* result = self._parse_response(response.text)
ParseResponse ==
  /\ pc = "respond"
  /\ result' = _parse_response(response_text)
  /\ pc' = "parsed"
  /\ UNCHANGED <<now, response_text, report, bpa_data, args, ret, analysis_results, calls>>

\* report = scorer.format_report(result), reached when _parse_response
\* returned and result.get('error') is false
FormatReport ==
  /\ pc = "parsed"
  /\ ~Raised(result)
  /\ ~Truthy(Get(result.val.d, "error", None))
  /\ report' = format_report(result.val.d, now)
  /\ pc' = "formatted"
  /\ UNCHANGED <<now, response_text, result, bpa_data, args, ret, analysis_results, calls>>

\* bpa_data = scorer.export_for_bpa(report)
ExportForBpa ==
  /\ pc = "formatted"
  /\ ~Raised(report)
  /\ bpa_data' = export_for_bpa(report.val)
  /\ pc' = "exported"
  /\ UNCHANGED <<now, response_text, result, report, args, ret, analysis_results, calls>>

Next == ParseResponse \/ FormatReport \/ ExportForBpa

Spec == Init /\ [][Next]_vars

----------------------------------------------------------------------------
(* calculate_overall_grade applied over the whole 1-9 scale, in hundredths *)

InitGrade ==
  /\ pc = "grade"
  /\ args \in [composite_score : (SCORE_MIN * 100)..(SCORE_MAX * 100)]
  /\ ret = None
  /\ now = 0
  /\ response_text = None
  /\ result = None
  /\ report = None
  /\ bpa_data = None
  /\ analysis_results = <<>>
  /\ calls = <<>>

CalculateOverallGrade ==
  /\ pc = "grade"
  /\ ret' = calculate_overall_grade(args.composite_score)
  /\ pc' = "graded"
  /\ UNCHANGED <<now, response_text, result, report, bpa_data, args, analysis_results, calls>>

NextGrade == CalculateOverallGrade

SpecGrade == InitGrade /\ [][NextGrade]_vars

----------------------------------------------------------------------------
(* get_score_description applied to every trait of the catalog and to an   *)
(* unrecognized trait, for every score of the scale                        *)

TraitIds ==
  {StructuralTraits[i].id : i \in 1..Len(StructuralTraits)}
    \cup {UdderTraits[i].id : i \in 1..Len(UdderTraits)}

InitDescribe ==
  /\ pc = "describe"
  /\ args \in [trait_id : TraitIds \cup {"custom_trait"},
               score : {PyInt(n) : n \in SCORE_MIN..SCORE_MAX}]
  /\ ret = None
  /\ now = 0
  /\ response_text = None
  /\ result = None
  /\ report = None
  /\ bpa_data = None
  /\ analysis_results = <<>>
  /\ calls = <<>>

GetScoreDescription ==
  /\ pc = "describe"
  /\ ret' = get_score_description(args.trait_id, args.score)
  /\ pc' = "described"
  /\ UNCHANGED <<now, response_text, result, report, bpa_data, args, analysis_results, calls>>

NextDescribe == GetScoreDescription

SpecDescribe == InitDescribe /\ [][NextDescribe]_vars

----------------------------------------------------------------------------
(* app.py: the routes over the in-memory result store, served one request  *)
(* at a time while the clock runs.  A dict of reports is the function from *)
(* its keys to its values; the clock counts seconds.  The analyzer is      *)
(* configured (GEMINI_API_KEY is set).                                     *)

ALLOWED_EXTENSIONS == {"png", "jpg", "jpeg", "webp"}

\* allowed_file(filename), filename the sequence of its dot-separated
\* lower-case parts: it has a dot and its last part is an allowed extension
allowed_file(filename) ==
  Len(filename) > 1 /\ filename[Len(filename)] \in ALLOWED_EXTENSIONS

\* request.files of an upload: no image part, an empty filename, a text
\* file, an image
Files ==
  {[image |-> FALSE, filename |-> <<"">>],
   [image |-> TRUE, filename |-> <<"">>],
   [image |-> TRUE, filename |-> <<"notes", "txt">>],
   [image |-> TRUE, filename |-> <<"cow", "jpg">>]}

\* what the oracle answers an upload with: two payloads that give a Report,
\* one on which format_report raises, one on which _validate_result raises
\* and one that is not JSON
StoreTexts ==
  {[head |-> <<>>, body |-> b, tail |-> <<>>] :
     b \in {Json(PyDict(BasePayload)),
            Json(PyDict(Payload(PyItems(<<>>), PyItems(<<>>)))),
            Json(PyDict(Payload(PyItems(<<>>),
                                PyItems(<<[trait_id |-> "fore_udder",
                                           data |-> PyStr("tall")]>>)))),
            Json(PyList(<<>>)),
            NotJson}}

\* jsonify(body), status
Response(status, body) == [status |-> status, body |-> body]

\* analysis_results[report_id] = report keeping an entry that is already
\* stored under the id
StoreResult_keep_first(store, rep) ==
  [id \in DOMAIN store \cup {rep.report_id} |->
     IF id \in DOMAIN store THEN store[id] ELSE rep]

\* report_id = report['report_id']; analysis_results[report_id] = report
StoreResult(store, rep) ==
  [id \in DOMAIN store \cup {rep.report_id} |->
     IF id = rep.report_id THEN rep ELSE store[id]]

\* report['image_path'] = filename: the dict format_report returned gets
\* one more key
SetImagePath(rep, filename) ==
  [key \in DOMAIN rep \cup {"image_path"} |->
     IF key = "image_path" THEN filename ELSE rep[key]]

InitStore ==
  /\ pc = "idle"
  /\ now = 0
  /\ analysis_results = <<>>
  /\ response_text = None
  /\ result = None
  /\ report = None
  /\ bpa_data = None
  /\ args = None
  /\ ret = None
  /\ calls = <<>>

\* the clock reaches the next second
Tick ==
  /\ now < MaxTime
  /\ now' = now + 1
  /\ UNCHANGED <<pc, response_text, result, report, bpa_data, args, ret,
                 analysis_results, calls>>

\* upload_file up to the call of generate_content: the early returns, the
\* timestamped filename, the oracle's answer
UploadFile ==
  /\ pc = "idle"
  /\ \E file \in Files, text \in StoreTexts :
       IF ~file.image
       THEN /\ ret' = Response(400, "No image file provided")
            /\ UNCHANGED <<pc, response_text, args>>
       ELSE IF file.filename = <<"">>
       THEN /\ ret' = Response(400, "No file selected")
            /\ UNCHANGED <<pc, response_text, args>>
       ELSE IF ~allowed_file(file.filename)
       THEN /\ ret' = Response(400, "Invalid file type. Use PNG, JPG, JPEG, or WebP")
            /\ UNCHANGED <<pc, response_text, args>>
       ELSE /\ args' = [filename |-> [timestamp |-> now, name |-> file.filename]]
            /\ response_text' = text
            /\ pc' = "respond"
            /\ ret' = None
  /\ UNCHANGED <<now, result, report, bpa_data, analysis_results, calls>>

\* upload_file when analyze_image raised or returned an error result
AnalysisFailed ==
  /\ pc = "parsed"
  /\ IF Raised(result) THEN TRUE ELSE Truthy(Get(result.val.d, "error", None))
  /\ ret' = IF Raised(result) THEN Response(500, result.exc)
            ELSE Response(500, Get(result.val.d, "message", PyStr("Analysis failed")))
  /\ pc' = "idle"
  /\ response_text' = None
  /\ result' = None
  /\ args' = None
  /\ UNCHANGED <<now, report, bpa_data, analysis_results, calls>>

\* upload_file when format_report raised
ReportFailed ==
  /\ pc = "formatted"
  /\ Raised(report)
  /\ ret' = Response(500, report.exc)
  /\ pc' = "idle"
  /\ response_text' = None
  /\ result' = None
  /\ report' = None
  /\ args' = None
  /\ UNCHANGED <<now, bpa_data, analysis_results, calls>>

\* upload_file after format_report returned: the image path is set on the
\* report, the report is stored under its report_id and returned
StoreReport ==
  /\ pc = "formatted"
  /\ ~Raised(report)
  /\ LET stored == SetImagePath(report.val, args.filename) IN
     /\ analysis_results' = StoreResult(analysis_results, stored)
     /\ ret' = Response(200, [success |-> TRUE, report_id |-> stored.report_id,
                              report |-> stored])
  /\ pc' = "idle"
  /\ response_text' = None
  /\ result' = None
  /\ report' = None
  /\ args' = None
  /\ UNCHANGED <<now, bpa_data, calls>>

\* the report ids a request may name: the ids the clock can have issued
ReportIds == 0..MaxTime

\* get_result_api(report_id)
GetResultApi ==
  /\ pc = "idle"
  /\ \E report_id \in ReportIds :
       ret' = IF report_id \in DOMAIN analysis_results
              THEN Response(200, analysis_results[report_id])
              ELSE Response(404, "Report not found")
  /\ UNCHANGED <<pc, now, response_text, result, report, bpa_data, args,
                 analysis_results, calls>>

\* export_result(report_id)
ExportResult ==
  /\ pc = "idle"
  /\ \E report_id \in ReportIds :
       ret' = IF report_id \in DOMAIN analysis_results
              THEN Response(200, export_for_bpa(analysis_results[report_id]))
              ELSE Response(404, "Report not found")
  /\ UNCHANGED <<pc, now, response_text, result, report, bpa_data, args,
                 analysis_results, calls>>

\* BPAIntegration.format_submission(report, animal_id, farmer_id, location)
\* at clock reading clock
format_submission(rep, animal_id, farmer_id, location, clock) ==
  [submission_timestamp |-> clock,
   source |-> "AI-ATC-System",
   version |-> "1.0.0",
   animal_id |-> animal_id,
   farmer_id |-> farmer_id,
   location |-> location,
   classification_data |-> rep]

\* what submit_classification returns: not configured, accepted, refused,
\* timed out, connection failed
SubmitOutcomes ==
  {[success |-> FALSE, message |-> "BPA integration not configured. Please set BPA_API_URL and BPA_API_KEY."],
   [success |-> TRUE, message |-> "Data successfully submitted to BPA"],
   [success |-> FALSE, message |-> "BPA API returned status"],
   [success |-> FALSE, message |-> "Request to BPA timed out"],
   [success |-> FALSE, message |-> "Failed to connect to BPA"]}

\* submit_to_bpa(report_id), the request carrying an animal_id or none;
\* bpa_data is the submission handed to submit_classification
SubmitToBpa ==
  /\ pc = "idle"
  /\ \E report_id \in ReportIds, animal_id \in {None, PyStr("IN-42")},
        outcome \in SubmitOutcomes :
       IF report_id \in DOMAIN analysis_results
       THEN /\ bpa_data' = format_submission(
                             export_for_bpa(analysis_results[report_id]),
                             animal_id, None, None, now)
            /\ ret' = Response(200, outcome)
       ELSE /\ ret' = Response(404, "Report not found")
            /\ UNCHANGED bpa_data
  /\ UNCHANGED <<pc, now, response_text, result, report, args,
                 analysis_results, calls>>

NextStore ==
  \/ Tick
  \/ UploadFile
  \/ ParseResponse
  \/ AnalysisFailed
  \/ FormatReport
  \/ ReportFailed
  \/ StoreReport
  \/ GetResultApi
  \/ ExportResult
  \/ SubmitToBpa

SpecStore == InitStore /\ [][NextStore]_vars

----------------------------------------------------------------------------
(* Concurrent invocations of the one scorer of app.py (scorer =            *)
(* ATCScorer(), shared by the request threads): each thread runs           *)
(* format_report on its own validated result and then export_for_bpa on    *)
(* the report, one loop iteration or one return per step.  calls[t] is the *)
(* frame of thread t: its argument, its clock reading and its locals.      *)

\* the number of request threads in the scorer at once
MaxThreads == 2

Threads == 1..MaxThreads

\* the validated results the threads are given
ConcurrentPayloads ==
  {BasePayload,
   Payload(PyItems(<<[trait_id |-> "custom_trait", data |-> Scored(3)],
                     [trait_id |-> "stature", data |-> NotVisible]>>),
           PyItems(<<[trait_id |-> "teat_length", data |-> PyInt(7)]>>)),
   Payload(PyItems(<<>>), PyItems(<<>>)),
   Payload(PyItems(<<[trait_id |-> "rump_angle", data |-> Scored(9)]>>),
           PyItems(<<[trait_id |-> "fore_udder", data |-> PyStr("tall")]>>))}

AnalysisResults == {_validate_result(PyDict(p)).val.d : p \in ConcurrentPayloads}

\* formatted.append(...) on a list that all invocations share
AppendFormatted_shared(frames, t, entry) ==
  [u \in DOMAIN frames |-> [frames[u] EXCEPT !.formatted = Append(@, entry)]]

\* formatted.append(...) in _format_scores: formatted is a local of the call
AppendFormatted(frames, t, entry) ==
  [frames EXCEPT ![t].formatted = Append(@, entry)]

\* the dict literal of format_report, its two score lists already formatted
ReportLiteral(analysis_result, clock, structural, udder) ==
  [report_id |-> clock,
   generated_at |-> clock,
   animal_info |->
     [type |-> Get(analysis_result, "animal_type", PyStr("unknown")),
      breed |-> Get(analysis_result, "breed_guess", PyStr("unknown")),
      sex |-> Get(analysis_result, "sex", PyStr("unknown"))],
   image_assessment |->
     [quality |-> Get(analysis_result, "image_quality", PyStr("fair")),
      angle |-> Get(analysis_result, "image_angle", PyStr("unknown")),
      body_parts_visible |-> Get(analysis_result, "body_parts_visible", PyItems(<<>>))],
   scores |-> [structural |-> structural, udder |-> udder],
   composites |-> Get(analysis_result, "composite_scores", PyDict(<<>>)),
   overall_grade |-> ReportGrade(analysis_result),
   assessment |-> Get(analysis_result, "overall_assessment", PyStr("")),
   recommendations |-> Get(analysis_result, "recommendations", PyList(<<>>))]

InitConcurrent ==
  /\ pc = "threads"
  /\ now = 0
  /\ args \in [Threads -> AnalysisResults]
  /\ calls = [t \in Threads |->
                [pc |-> "call", analysis_result |-> args[t], clock |-> 0, i |-> 0,
                 formatted |-> <<>>, structural |-> <<>>, udder |-> <<>>,
                 report |-> None, bpa_data |-> None]]
  /\ response_text = None
  /\ result = None
  /\ report = None
  /\ bpa_data = None
  /\ ret = None
  /\ analysis_results = <<>>

\* the score map the frame's loop runs over
ScoresOfFrame(frame) ==
  Get(frame.analysis_result, frame.pc \o "_scores", PyItems(<<>>)).items

\* format_report is entered: the clock is read and _format_scores starts on
\* the structural scores
EnterFormatReport(t) ==
  /\ calls[t].pc = "call"
  /\ calls' = [calls EXCEPT ![t].pc = "structural", ![t].clock = now,
                            ![t].i = 1, ![t].formatted = <<>>]
  /\ UNCHANGED <<pc, now, response_text, result, report, bpa_data, args, ret,
                 analysis_results>>

\* one iteration of the loop of _format_scores
FormatScoreStep(t) ==
  /\ calls[t].pc \in {"structural", "udder"}
  /\ calls[t].i <= Len(ScoresOfFrame(calls[t]))
  /\ LET item == ScoresOfFrame(calls[t])[calls[t].i]
         entry == FormatScore(calls[t].pc, item.trait_id, item.data)
     IN calls' = IF Raised(entry)
                 THEN [calls EXCEPT ![t].pc = "done", ![t].report = entry]
                 ELSE [AppendFormatted(calls, t, entry.val) EXCEPT ![t].i = @ + 1]
  /\ UNCHANGED <<pc, now, response_text, result, report, bpa_data, args, ret,
                 analysis_results>>

\* return formatted: the structural list is kept and _format_scores starts
\* on the udder scores, or the udder list is kept
ReturnFormatted(t) ==
  /\ calls[t].pc \in {"structural", "udder"}
  /\ calls[t].i > Len(ScoresOfFrame(calls[t]))
  /\ calls' = IF calls[t].pc = "structural"
              THEN [calls EXCEPT ![t].structural = calls[t].formatted,
                                 ![t].pc = "udder", ![t].i = 1, ![t].formatted = <<>>]
              ELSE [calls EXCEPT ![t].udder = calls[t].formatted, ![t].pc = "literal"]
  /\ UNCHANGED <<pc, now, response_text, result, report, bpa_data, args, ret,
                 analysis_results>>

\* return report
ReturnReport(t) ==
  /\ calls[t].pc = "literal"
  /\ calls' = [calls EXCEPT
                 ![t].report = Return(ReportLiteral(calls[t].analysis_result, calls[t].clock,
                                                    calls[t].structural, calls[t].udder)),
                 ![t].pc = "formatted"]
  /\ UNCHANGED <<pc, now, response_text, result, report, bpa_data, args, ret,
                 analysis_results>>

\* export_for_bpa(report) on the report the thread built
ExportCall(t) ==
  /\ calls[t].pc = "formatted"
  /\ calls' = [calls EXCEPT ![t].bpa_data = export_for_bpa(calls[t].report.val),
                            ![t].pc = "done"]
  /\ UNCHANGED <<pc, now, response_text, result, report, bpa_data, args, ret,
                 analysis_results>>

NextConcurrent ==
  \/ Tick
  \/ \E t \in Threads : EnterFormatReport(t)
  \/ \E t \in Threads : FormatScoreStep(t)
  \/ \E t \in Threads : ReturnFormatted(t)
  \/ \E t \in Threads : ReturnReport(t)
  \/ \E t \in Threads : ExportCall(t)

SpecConcurrent == InitConcurrent /\ [][NextConcurrent]_vars

----------------------------------------------------------------------------
(* Properties *)

Abs(x) == IF x < 0 THEN -x ELSE x

\* h hundredths is num/den rounded to 2 decimal places
Nearest(h, num, den) == 2 * Abs(h * den - 100 * num) <= den

\* _parse_response returned a validated result
Validated ==
  /\ pc # "respond"
  /\ ~Raised(result)
  /\ "composite_scores" \in DOMAIN result.val.d

\* format_report returned a Report
Reported == pc \in {"formatted", "exported"} /\ ~Raised(report)

Composite(name) == result.val.d["composite_scores"].d[name]

\* the items of a score map of the validated result
ItemsOf(key) == result.val.d[key].items

\* the positions of the entries that carry a score: a dict with a non-null
\* "score"
ScoredAt(items) ==
  {i \in 1..Len(items) :
     /\ IsDict(items[i].data)
     /\ "score" \in DOMAIN items[i].data.d
     /\ items[i].data.d["score"] # None}

RECURSIVE SumAt(_, _)
SumAt(items, at) ==
  IF at = {} THEN 0
  ELSE LET i == CHOOSE j \in at : TRUE
       IN items[i].data.d["score"].n + SumAt(items, at \ {i})

\* every score the payload carries is on the 1-9 scale
ScoresOnScale ==
  \A key \in {"structural_scores", "udder_scores"} :
    \A i \in ScoredAt(ItemsOf(key)) : validate_score(ItemsOf(key)[i].data.d["score"])

\* C1 as claimed: final_composite is round(0.6 * structural_composite + 0.4 *
\* udder_composite, 2) over the reported 2-decimal composites when
\* udder_composite is defined, and structural_composite when it is absent;
\* stated for payloads whose scores are all on the 1-9 scale.
C1_BlendOfReported ==
  (Validated /\ ScoresOnScale) =>
    IF Composite("udder_composite") # None
    THEN Nearest(Composite("final_composite").h,
                 6 * Composite("structural_composite").h
                   + 4 * Composite("udder_composite").h, 1000)
    ELSE Composite("final_composite") = Composite("structural_composite")

\* C1 amended: when at least one udder trait carries a score, final_composite
\* is 0.6 * (mean of the structural scores, 5 if none) + 0.4 * (mean of the
\* udder scores), both means unrounded, rounded to 2 decimal places; when no
\* udder trait carries a score it equals structural_composite exactly.
C1_BlendOfMeans ==
  Validated =>
    LET ss == ItemsOf("structural_scores")
        us == ItemsOf("udder_scores")
        a == IF ScoredAt(ss) = {} THEN 5 ELSE SumAt(ss, ScoredAt(ss))
        n == IF ScoredAt(ss) = {} THEN 1 ELSE Cardinality(ScoredAt(ss))
        b == SumAt(us, ScoredAt(us))
        m == Cardinality(ScoredAt(us))
    IN IF ScoredAt(us) = {}
       THEN Composite("final_composite") = Composite("structural_composite")
       ELSE Nearest(Composite("final_composite").h, 3 * a * m + 2 * b * n, 5 * n * m)

\* seven structural scores with mean 41/7 and an udder score 5: the blend of
\* the means is 5.51, the blend of the reported 5.86 and 5.00 would be 5.52
C1_Witness ==
  /\ Validated
  /\ Composite("structural_composite") = PyNum(586)
  /\ Composite("udder_composite") = PyNum(500)
  /\ Composite("final_composite") = PyNum(551)

\* C2: structural_composite is the mean of exactly the structural scores that
\* are present, rounded to 2 decimal places, and 5.00 when there is none.
C2_StructuralMean ==
  Validated =>
    LET ss == ItemsOf("structural_scores") IN
    IF ScoredAt(ss) = {}
    THEN Composite("structural_composite") = PyNum(500)
    ELSE Nearest(Composite("structural_composite").h,
                 SumAt(ss, ScoredAt(ss)), Cardinality(ScoredAt(ss)))

\* three scores whose mean does not come out even: 5, 5 and 7 give 5.67
C2_Witness ==
  /\ Validated
  /\ Cardinality(ScoredAt(ItemsOf("structural_scores"))) = 3
  /\ Composite("structural_composite") = PyNum(567)

\* C3: with no udder trait scored, udder_composite is None and final_composite
\* equals structural_composite; with at least one scored, udder_composite is
\* the mean of the scored udder traits only, rounded to 2 decimal places.
C3_UdderAbsentOrMean ==
  Validated =>
    LET us == ItemsOf("udder_scores") IN
    IF ScoredAt(us) = {}
    THEN /\ Composite("udder_composite") = None
         /\ Composite("final_composite") = Composite("structural_composite")
    ELSE /\ Composite("udder_composite") # None
         /\ Nearest(Composite("udder_composite").h,
                    SumAt(us, ScoredAt(us)), Cardinality(ScoredAt(us)))

Grades == {"Excellent", "Very Good", "Good Plus", "Good", "Average", "Fair", "Poor"}

GradeRank(g) ==
  CASE g = "Excellent" -> 6
    [] g = "Very Good" -> 5
    [] g = "Good Plus" -> 4
    [] g = "Good" -> 3
    [] g = "Average" -> 2
    [] g = "Fair" -> 1
    [] OTHER -> 0

P == response_text.body.value.d
ScoresOfP == [key \in {"structural_scores", "udder_scores"} \cap DOMAIN P |-> P[key]]

\* the threshold ladder of the grade, as a table of lower bounds
GradeOf(h) ==
  LET reached == {g \in Grades : h >= (GradeRank(g) + 2) * 100 \/ g = "Poor"}
  IN CHOOSE g \in reached : \A o \in reached : GradeRank(o) <= GradeRank(g)

\* C5: the Report embeds the composite scores computed over P's
\* structural_scores and udder_scores, structural_composite among them, and
\* its overall_grade is the grade ladder applied to their final_composite.
C5_ReportEmbedsComposites ==
  Reported =>
    LET computed == _calculate_composite_scores(ScoresOfP) IN
    /\ ~Raised(computed)
    /\ report.val.composites = computed.val
    /\ "structural_composite" \in DOMAIN report.val.composites.d
    /\ report.val.overall_grade = GradeOf(computed.val.d["final_composite"].h)

\* structural_scores = {} and udder_scores = {}: 5.00, absent, 5.00, Good
C5_Witness ==
  /\ Reported
  /\ Get(P, "structural_scores", None) = PyItems(<<>>)
  /\ Get(P, "udder_scores", None) = PyItems(<<>>)
  /\ report.val.composites =
       PyDict([structural_composite |-> PyNum(500), udder_composite |-> None,
               final_composite |-> PyNum(500)])
  /\ report.val.overall_grade = "Good"

\* the score an entry of P gives its trait: the "score" of a dict (null when
\* it has none), the entry itself when it is not a dict
GivenScore(data) ==
  IF IsDict(data)
  THEN IF "score" \in DOMAIN data.d THEN data.d["score"] ELSE None
  ELSE data

ItemsOfP(key) == IF key \in DOMAIN P THEN P[key].items ELSE <<>>

\* C6: the exported structural_scores and udder_scores have exactly the trait
\* ids of P's score maps, each with the score P gave it.
C6_ExportRoundTrip ==
  pc = "exported" =>
    \A key \in {"structural_scores", "udder_scores"} :
      LET items == ItemsOfP(key) IN
      /\ DOMAIN bpa_data[key] = {items[i].trait_id : i \in 1..Len(items)}
      /\ \A i \in 1..Len(items) :
           bpa_data[key][items[i].trait_id] = GivenScore(items[i].data)

\* a scored trait, an unknown trait with a null score and an udder trait with
\* no score key come back as 7, null and null
C6_Witness ==
  /\ pc = "exported"
  /\ Len(ItemsOfP("structural_scores")) = 2
  /\ bpa_data["structural_scores"] = [stature |-> PyInt(7), custom_trait |-> None]
  /\ ItemsOfP("udder_scores") = <<[trait_id |-> "fore_udder", data |-> NoScoreKey]>>
  /\ bpa_data["udder_scores"] = [fore_udder |-> None]

\* C7: format_report returns a Report, without raising, for every payload
\* that _parse_response accepted.
C7_ReportTotal == pc = "formatted" => ~Raised(report)

\* the text does not hold a JSON object
NotAnObject(text) ==
  LET stripped == StripFences(text) IN
  \/ Raised(json_loads(stripped))
  \/ ~IsDict(json_loads(stripped).val)

\* C8: for a text that does not hold a JSON object _parse_response returns
\* the parse-failure result (error true) carrying the raw text, and does not
\* raise.
C8_ParseFailure ==
  (pc = "parsed" /\ NotAnObject(response_text)) =>
    /\ ~Raised(result)
    /\ Get(result.val.d, "error", None) = PyBool(TRUE)
    /\ Get(result.val.d, "raw_response", None) = response_text

\* C9: every score of a Report is None or an integer in 1..9, and every
\* composite that is defined lies in 1.00..9.00.
C9_ScoresInRange ==
  Reported =>
    /\ \A cat \in {"structural", "udder"} :
         \A i \in 1..Len(report.val.scores[cat]) :
           validate_score(report.val.scores[cat][i].score)
    /\ \A name \in DOMAIN report.val.composites.d :
         LET c == report.val.composites.d[name] IN
         c = None \/ (SCORE_MIN * 100 <= c.h /\ c.h <= SCORE_MAX * 100)

\* C10: for every score in 1..9 get_score_description returns a string:
\* "Score: <score>" for an unrecognized trait, the anchor text at 1, 5 and 9,
\* the below-average string at 2-4 and the above-average string at 6-8.
C10_Description ==
  pc = "described" =>
    LET n == args.score.n
        known == args.trait_id \in TraitIds
        anchors == descriptions[args.trait_id]
    IN /\ ~Raised(ret)
       /\ ~known => ret.val = "Score: " \o ToString(n)
       /\ (known /\ n = 1) => ret.val = anchors.a1
       /\ (known /\ n = 5) => ret.val = anchors.a5
       /\ (known /\ n = 9) => ret.val = anchors.a9
       /\ (known /\ n \in 2..4) =>
            ret.val = "Below average (" \o anchors.a1 \o " to " \o anchors.a5 \o ")"
       /\ (known /\ n \in 6..8) =>
            ret.val = "Above average (" \o anchors.a5 \o " to " \o anchors.a9 \o ")"

C10_Witness ==
  /\ pc = "described"
  /\ args.trait_id = "stature"
  /\ args.score = PyInt(6)
  /\ ret = Return("Above average (Average height to Very tall/large)")

\* C11: in every formatted score entry of a Report, score_description is
\* "Not assessed" when the entry's score is absent (None), and is what
\* get_score_description returns for the entry's trait and score when the
\* score is present.
C11_NotAssessedIffAbsent ==
  Reported =>
    \A cat \in {"structural", "udder"} :
      \A i \in 1..Len(report.val.scores[cat]) :
        LET entry == report.val.scores[cat][i] IN
        IF entry.score = None
        THEN entry.score_description = "Not assessed"
        ELSE entry.score_description = get_score_description(entry.trait_id, entry.score).val

\* the metadata fields of the payload and where format_report puts them
MetadataKeys == {"animal_type", "breed_guess", "sex", "image_quality", "image_angle"}

ReportMetadata(key) ==
  CASE key = "animal_type" -> report.val.animal_info.type
    [] key = "breed_guess" -> report.val.animal_info.breed
    [] key = "sex" -> report.val.animal_info.sex
    [] key = "image_quality" -> report.val.image_assessment.quality
    [] key = "image_angle" -> report.val.image_assessment.angle

\* C12 as claimed: type, breed, sex, quality and angle of a Report are the
\* payload's animal_type, breed_guess, sex, image_quality and image_angle,
\* and each of them that the payload lacks is the literal "unknown".
C12_MissingIsUnknown ==
  Reported =>
    \A key \in MetadataKeys :
      ReportMetadata(key) = IF key \in DOMAIN P THEN P[key] ELSE PyStr("unknown")

\* C12 amended: the five fields are copied verbatim from the payload; a
\* missing animal_type, breed_guess, sex or image_angle appears as "unknown"
\* and a missing image_quality appears as "fair".
C12_MissingIsDefault ==
  Reported =>
    \A key \in MetadataKeys :
      ReportMetadata(key) =
        IF key \in DOMAIN P THEN P[key]
        ELSE IF key = "image_quality" THEN PyStr("fair")
        ELSE PyStr("unknown")

\* a payload without image_quality and sex that names the animal's type
C12_Witness ==
  /\ Reported
  /\ MetadataKeys \ DOMAIN P = {"image_quality", "sex"}
  /\ report.val.image_assessment.quality = PyStr("fair")
  /\ report.val.animal_info.sex = PyStr("unknown")
  /\ report.val.animal_info.type = PyStr("cattle")
  /\ report.val.image_assessment.angle = PyStr("side")

\* the step of upload_file that stores the Report format_report returned
Storing == pc = "formatted" /\ ~Raised(report) /\ pc' = "idle"

\* C13: a Report is immutable after creation: the Report that upload_file
\* stores has exactly the fields and values format_report returned, and no
\* step (a lookup, an export, a submission, the building and storing of
\* another report) changes a stored Report other than by binding its id to
\* the Report of a later upload.
C13_ReportImmutable ==
  [][/\ Storing => analysis_results'[report.val.report_id] = report.val
     /\ \A id \in DOMAIN analysis_results :
          \/ /\ id \in DOMAIN analysis_results'
             /\ analysis_results'[id] = analysis_results[id]
          \/ Storing /\ id = report.val.report_id]_vars

\* C16: the store changes only in the storing step of a successful upload,
\* which binds the report's report_id, the second at which format_report
\* ran, to that report and leaves every other entry alone; failed uploads,
\* lookups, exports and submissions leave the store unchanged; no id is
\* ever removed; and when the id is already bound (an upload earlier in the
\* same second) the later report takes the earlier one's place, so that no
\* id retrieves the earlier one.
C16_StoreChanges ==
  [][/\ DOMAIN analysis_results \subseteq DOMAIN analysis_results'
     /\ ~Storing => analysis_results' = analysis_results
     /\ (pc = "parsed" /\ pc' = "formatted" /\ ~Raised(report')) =>
          report'.val.report_id = now
     /\ Storing =>
          LET id == report.val.report_id IN
          /\ DOMAIN analysis_results' = DOMAIN analysis_results \cup {id}
          /\ ret' = Response(200, [success |-> TRUE, report_id |-> id,
                                   report |-> analysis_results'[id]])
          /\ \A key \in DOMAIN report.val :
               analysis_results'[id][key] = report.val[key]
          /\ \A other \in DOMAIN analysis_results \ {id} :
               analysis_results'[other] = analysis_results[other]
          /\ id \in DOMAIN analysis_results =>
               \A other \in DOMAIN analysis_results' \ {id} :
                 analysis_results'[other] # analysis_results[id]]_vars

\* second 0: the report graded Good Plus was stored and submitted to BPA,
\* then an upload in the same second stored the report graded Good under
\* the same id
C16_Witness ==
  /\ pc = "idle"
  /\ now = 0
  /\ bpa_data # None
  /\ bpa_data.classification_data.report_id = 0
  /\ bpa_data.classification_data.overall_grade = "Good Plus"
  /\ DOMAIN analysis_results = {0}
  /\ analysis_results[0].overall_grade = "Good"
  /\ ret = Response(200, [success |-> TRUE, report_id |-> 0,
                          report |-> analysis_results[0]])

\* C14: whatever the interleaving, no invocation writes its input, and each
\* ends as it would alone: format_report returns the Report (or raises the
\* exception) that it gives for the thread's input at the thread's clock
\* reading, and export_for_bpa returns the export of that Report.
C14_Independent ==
  pc = "threads" =>
    \A t \in Threads :
      LET alone == format_report(args[t], calls[t].clock) IN
      /\ calls[t].analysis_result = args[t]
      /\ calls[t].pc \in {"formatted", "done"} => calls[t].report = alone
      /\ (calls[t].pc = "done" /\ ~Raised(alone)) =>
           calls[t].bpa_data = export_for_bpa(alone.val)

\* thread 2 entered format_report at second 0 and is in its structural loop
\* while thread 1, entered at second 1 on another payload, has returned its
\* report and its export
C14_Witness ==
  /\ pc = "threads"
  /\ args[1] # args[2]
  /\ calls[2].pc = "structural" /\ calls[2].clock = 0 /\ Len(calls[2].formatted) = 1
  /\ calls[1].pc = "done" /\ calls[1].clock = 1
  /\ ~Raised(calls[1].report)
  /\ Len(calls[1].report.val.scores.structural) = 2
  /\ calls[1].bpa_data.overall_grade = "Good Plus"

\* a malformed per-trait entry: not a dict, or a dict with no "score" key
Malformed(data) == ~IsDict(data) \/ "score" \notin DOMAIN data.d

\* the score map of P under key (the empty map when P has none), and the
\* same map without its malformed entries
MapOfP(key) == Get(P, key, PyItems(<<>>))

WellFormedOnly(key) ==
  PyItems(SelectSeq(MapOfP(key).items, LAMBDA item : ~Malformed(item.data)))

\* the response holds an object whose score maps are dicts; at least one of
\* their entries is malformed and every other entry carries null or an
\* integer as its score; _parse_response has run on it
MalformedEntryParsed ==
  /\ pc # "respond"
  /\ ~NotAnObject(response_text)
  /\ \A key \in {"structural_scores", "udder_scores"} :
       /\ IsDict(MapOfP(key))
       /\ \A i \in 1..Len(MapOfP(key).items) :
            LET data == MapOfP(key).items[i].data IN
            Malformed(data) \/ data.d["score"].t \in {"null", "int"}
  /\ \E key \in {"structural_scores", "udder_scores"} :
       \E i \in 1..Len(MapOfP(key).items) : Malformed(MapOfP(key).items[i].data)

\* C15: malformed entries are no error condition of the calculator and count
\* neither in the sum nor in the divisor: _calculate_composite_scores returns
\* a Composite Score Set, the one it computes for the payload without its
\* malformed entries, and its structural_composite is the mean over the
\* remaining scored entries (5.00 if there is none).
C15_MalformedExcluded ==
  MalformedEntryParsed =>
    LET remaining == _calculate_composite_scores(
                       [structural_scores |-> WellFormedOnly("structural_scores"),
                        udder_scores |-> WellFormedOnly("udder_scores")])
        ss == MapOfP("structural_scores").items
    IN /\ ~Raised(result)
       /\ ~Raised(remaining)
       /\ result.val.d["composite_scores"] = remaining.val
       /\ IF ScoredAt(ss) = {}
          THEN Composite("structural_composite") = PyNum(500)
          ELSE Nearest(Composite("structural_composite").h,
                       SumAt(ss, ScoredAt(ss)), Cardinality(ScoredAt(ss)))

\* stature scored 3 next to a bare string, and an udder entry without a
\* score key: the mean is 3.00 over one entry and no udder composite
C15_Witness ==
  /\ MalformedEntryParsed
  /\ MapOfP("structural_scores").items =
       <<[trait_id |-> "stature", data |-> Scored(3)],
         [trait_id |-> "custom_trait", data |-> PyStr("tall")]>>
  /\ MapOfP("udder_scores").items = <<[trait_id |-> "fore_udder", data |-> NoScoreKey]>>
  /\ ~Raised(result)
  /\ result.val.d["composite_scores"] =
       PyDict([structural_composite |-> PyNum(300), udder_composite |-> None,
               final_composite |-> PyNum(300)])

====
